---- MODULE Spec2Model ----
(***************************************************************************)
(* Model of the paper-podcasts pipeline orchestrator (PaperPipeline), its  *)
(* state machine (PaperWorkflow) and the persisted state document of one   *)
(* Paper record.                                                           *)
(*                                                                         *)
(* One Paper object is held by the caller.  process_paper and resume_paper *)
(* are modelled statement by statement (pc is the position inside the      *)
(* running call), the four collaborators and the file system are the       *)
(* environment: a collaborator call returns or raises, a lazy reload finds *)
(* the artifact, finds nothing or raises while reading it, a write of the  *)
(* state document succeeds or fails.                                       *)
(***************************************************************************)
EXTENDS Naturals, Sequences, FiniteSets, TLC

VARIABLES
    status,     \* paper.status, the field the workflow is bound to
    disk,       \* status stored in paper_state.json, "none" when no document
    art,        \* stages whose artifact exists under papers/{arxiv_id}/
    pc,         \* position inside the running call, "idle" between calls
    stg,        \* index in StageOrder of the stage block being executed
    stages,     \* the stage list process_paper works with (after defaulting)
    req,        \* the stage list the call was given (NoStageList for None)
    res,        \* PipelineResult.download/extraction/summary/audio
    errors,     \* len(PipelineResult.errors)
    raised,     \* exception that escaped the last call to the caller
    op,         \* entry point of the running / last call
    ev,         \* event of the last direct transition call
    entry,      \* paper.status when the running / last call was entered
    invoked,    \* collaborators invoked by the running / last call, in order
    exc,        \* what raised inside the running / last call
    dirty,      \* a transition of this call has had no state write after it
    paper,      \* the fields of the Paper object other than status
    file,       \* the state document on disk and the directory it is in
    arg,        \* the stages argument as the caller passed it
    ran,        \* stages whose collaborator was invoked on this Paper object
    direct,     \* a workflow event was called by the caller, outside a run
    store,      \* artifact files of the paper's directory, and the file
                \* the last reconstruction of each stage selected
    two         \* two orchestrator instances, each processing its own paper
                \* over one storage root

vars == <<status, disk, art, pc, stg, stages, req, res, errors, raised, op,
          ev, entry, invoked, exc, dirty, paper, file, arg, ran, direct,
          store, two>>

\* The variables of the single orchestrator and its paper
one == <<status, disk, art, pc, stg, stages, req, res, errors, raised, op,
         ev, entry, invoked, exc, dirty, paper, file, arg, ran, direct>>

----------------------------------------------------------------------------
(* PaperWorkflow: states and transition table                              *)

States ==
    {"new", "downloading", "downloaded", "extracting", "extracted",
     "summarizing", "summarized", "generating_audio", "audio_generated",
     "completed", "failed"}

Chain ==
    <<"new", "downloading", "downloaded", "extracting", "extracted",
      "summarizing", "summarized", "generating_audio", "audio_generated",
      "completed">>

FinalStates == {"completed", "failed"}

NonTerminal == States \ FinalStates

StageOrder == <<"download", "extract", "summarize", "audio">>

Stages == {StageOrder[i] : i \in 1..Len(StageOrder)}

StartEvent(X) ==
    CASE X = "download"  -> "start_download"
      [] X = "extract"   -> "start_extract"
      [] X = "summarize" -> "start_summarize"
      [] X = "audio"     -> "start_audio_generation"

CompleteEvent(X) ==
    CASE X = "download"  -> "complete_download"
      [] X = "extract"   -> "complete_extract"
      [] X = "summarize" -> "complete_summarize"
      [] X = "audio"     -> "complete_audio_generation"

\* The resting state from which stage X starts, the state while X runs and
\* the state after X
ReadyState(X) ==
    CASE X = "download"  -> "new"
      [] X = "extract"   -> "downloaded"
      [] X = "summarize" -> "extracted"
      [] X = "audio"     -> "summarized"

InProgressState(X) ==
    CASE X = "download"  -> "downloading"
      [] X = "extract"   -> "extracting"
      [] X = "summarize" -> "summarizing"
      [] X = "audio"     -> "generating_audio"

DoneState(X) ==
    CASE X = "download"  -> "downloaded"
      [] X = "extract"   -> "extracted"
      [] X = "summarize" -> "summarized"
      [] X = "audio"     -> "audio_generated"

Events ==
    {StartEvent(X) : X \in Stages} \cup {CompleteEvent(X) : X \in Stages}
        \cup {"finalize", "mark_failed"}

\* start_download = new.to(downloading) ... finalize =
\* audio_generated.to(completed): the nine (event, source, target) edges of
\* the chain
ChainEdges ==
    {<<"start_download", "new", "downloading">>,
     <<"complete_download", "downloading", "downloaded">>,
     <<"start_extract", "downloaded", "extracting">>,
     <<"complete_extract", "extracting", "extracted">>,
     <<"start_summarize", "extracted", "summarizing">>,
     <<"complete_summarize", "summarizing", "summarized">>,
     <<"start_audio_generation", "summarized", "generating_audio">>,
     <<"complete_audio_generation", "generating_audio", "audio_generated">>,
     <<"finalize", "audio_generated", "completed">>}

\* The table with complete_download leading back to new
TransitionsRegress ==
    (ChainEdges \ {<<"complete_download", "downloading", "downloaded">>})
        \cup {<<"complete_download", "downloading", "new">>}
        \cup {<<"mark_failed", s, "failed">> : s \in NonTerminal}

\* The table without the failure edges of the four in-progress states
TransitionsNoFailInProgress ==
    ChainEdges \cup
        {<<"mark_failed", s, "failed">> :
            s \in NonTerminal \ {InProgressState(X) : X \in Stages}}

\* The table with start_extract also accepted in new
TransitionsExtra ==
    ChainEdges
        \cup {<<"start_extract", "new", "extracting">>}
        \cup {<<"mark_failed", s, "failed">> : s \in NonTerminal}

\* The table without the failure edge of audio_generated
TransitionsNoFailAudio ==
    ChainEdges \cup
        {<<"mark_failed", s, "failed">> : s \in NonTerminal \ {"audio_generated"}}

\* The table with a retry edge out of failed
TransitionsRetry ==
    ChainEdges
        \cup {<<"start_download", "failed", "downloading">>}
        \cup {<<"mark_failed", s, "failed">> : s \in NonTerminal}

\* The table with finalize leading to a name that is no state
TransitionsDone ==
    (ChainEdges \ {<<"finalize", "audio_generated", "completed">>})
        \cup {<<"finalize", "audio_generated", "done">>}
        \cup {<<"mark_failed", s, "failed">> : s \in NonTerminal}

\* The table with complete_extract leading back to downloaded
TransitionsRedo ==
    (ChainEdges \ {<<"complete_extract", "extracting", "extracted">>})
        \cup {<<"complete_extract", "extracting", "downloaded">>}
        \cup {<<"mark_failed", s, "failed">> : s \in NonTerminal}

\* The transition table.  mark_failed = new.to(failed) |
\* downloading.to(failed) | ... | audio_generated.to(failed): one edge per
\* non-terminal state, none from completed or failed
Transitions ==
    ChainEdges \cup {<<"mark_failed", s, "failed">> : s \in NonTerminal}

\* An event is allowed in a state iff the table has an edge for the pair
Allowed(e, s) == \E t \in Transitions : t[1] = e /\ t[2] = s

\* State after sending event e in state s; the state is kept when the
\* event is rejected (the machine raises TransitionNotAllowed)
Target(e, s) ==
    IF Allowed(e, s)
    THEN (CHOOSE t \in Transitions : t[1] = e /\ t[2] = s)[3]
    ELSE s

\* can_download also true once the download is done
can_download_lax(s) == s \in {"new", "downloaded"}

\* can_extract testing the in-progress state of the download
can_extract_downloading(s) == s = "downloading"

\* can_summarize also true in failed
can_summarize_retry(s) == s \in {"extracted", "failed"}

\* Guard predicates
can_download(s) == s = "new"

can_extract(s) == s = "downloaded"

can_summarize(s) == s = "extracted"

can_generate_audio(s) == s = "summarized"

\* The finalize guard never true
can_finalize_never(s) == s = "none"

can_finalize(s) == s = "audio_generated"

----------------------------------------------------------------------------
(* Paper: fields, file names and the state document                        *)

\* Strings are sequences of one-character strings; an Optional value is
\* <<>> for None and <<v>> for a value v

MaxLength == 200

\* invalid_chars = '/\\:*?"<>|'
InvalidChars == {"/", "\\", ":", "*", "?", "\"", "<", ">", "|"}

\* The characters str.split() splits on
Whitespace == {" ", "\t", "\n"}

\* ' '.join(cleaned.split()): runs of whitespace become one space, leading
\* and trailing whitespace is dropped (computed on the two halves of t, which
\* are joined by a space when whitespace separates their words)
RECURSIVE JoinWords(_)
JoinWords(t) ==
    IF Len(t) = 0 THEN <<>>
    ELSE IF Len(t) = 1 THEN (IF t[1] \in Whitespace THEN <<>> ELSE t)
    ELSE LET m == Len(t) \div 2
             left == JoinWords(SubSeq(t, 1, m))
             right == JoinWords(SubSeq(t, m + 1, Len(t)))
         IN  IF left = <<>> THEN right
             ELSE IF right = <<>> THEN left
             ELSE IF t[m] \in Whitespace \/ t[m + 1] \in Whitespace
                  THEN left \o <<" ">> \o right
                  ELSE left \o right

\* Paper.clean_filename(title, max_length=200)
clean_filename(title) ==
    LET replaced == [i \in 1..Len(title) |->
                        IF title[i] \in InvalidChars THEN "_" ELSE title[i]]
        joined == JoinWords(replaced)
        underscored == [i \in 1..Len(joined) |->
                           IF joined[i] = " " THEN "_" ELSE joined[i]]
    IN  IF Len(underscored) > MaxLength
        THEN SubSeq(underscored, 1, MaxLength)
        ELSE underscored

\* Paper.__post_init__: arxiv_id.split('v')[0] when the id contains a 'v'
post_init(id) ==
    IF \E i \in 1..Len(id) : id[i] = "v"
    THEN SubSeq(id, 1,
                (CHOOSE i \in 1..Len(id) :
                    id[i] = "v" /\ \A j \in 1..(i - 1) : id[j] # "v") - 1)
    ELSE id

\* A datetime: its date, its microseconds ("0" when none) and its UTC
\* offset ("naive" for a datetime without tzinfo)
DateTimes ==
    [day : {"2023-01-30"}, us : {"0", "250000"}, tz : {"naive", "+00:00"}]

\* What datetime.now() returns: a datetime without tzinfo
Nows == {dt \in DateTimes : dt.tz = "naive"}

\* datetime.isoformat(): the microseconds are written only when non-zero,
\* the offset only for an aware datetime
isoformat(dt) ==
    <<dt.day, "T12:00:00">>
        \o (IF dt.us = "0" THEN <<>> ELSE <<".", dt.us>>)
        \o (IF dt.tz = "naive" THEN <<>> ELSE <<dt.tz>>)

\* datetime.fromisoformat()
fromisoformat(str) ==
    LET hasUs == Len(str) >= 4 /\ str[3] = "."
        rest == IF hasUs THEN 5 ELSE 3
    IN  [day |-> str[1],
         us  |-> IF hasUs THEN str[4] ELSE "0",
         tz  |-> IF Len(str) >= rest THEN str[rest] ELSE "naive"]

\* Paper.pdf_path: set when save_dir and pdf_filename both are
pdf_path(p) ==
    IF p.save_dir # <<>> /\ p.pdf_filename # <<>>
    THEN <<p.save_dir[1] \o <<"/">> \o p.pdf_filename[1]>>
    ELSE <<>>

\* Paper.to_dict(): datetimes as ISO strings, authors as dicts, pdf_path
\* added; st is paper.status
to_dict(p, st) ==
    [arxiv_id |-> p.arxiv_id,
     title |-> p.title,
     authors |-> [i \in 1..Len(p.authors) |->
                     [name |-> p.authors[i].name,
                      affiliation |-> p.authors[i].affiliation]],
     abstract |-> p.abstract,
     published |-> isoformat(p.published),
     updated |-> isoformat(p.updated),
     categories |-> p.categories,
     primary_category |-> p.primary_category,
     pdf_url |-> p.pdf_url,
     comment |-> p.comment,
     journal_ref |-> p.journal_ref,
     doi |-> p.doi,
     downloaded_at |-> IF p.downloaded_at # <<>>
                       THEN <<isoformat(p.downloaded_at[1])>> ELSE <<>>,
     save_dir |-> p.save_dir,
     pdf_filename |-> p.pdf_filename,
     pdf_path |-> pdf_path(p),
     status |-> st,
     listen_status |-> p.listen_status,
     last_listened_at |-> IF p.last_listened_at # <<>>
                          THEN <<isoformat(p.last_listened_at[1])>>
                          ELSE <<>>]

\* from_dict with downloaded_at left as the stored string
from_dict_unparsed(d) ==
    [paper |->
        [arxiv_id |-> post_init(d.arxiv_id),
         title |-> d.title,
         authors |-> [i \in 1..Len(d.authors) |->
                         [cls |-> "Author",
                          name |-> d.authors[i].name,
                          affiliation |-> d.authors[i].affiliation]],
         abstract |-> d.abstract,
         published |-> fromisoformat(d.published),
         updated |-> fromisoformat(d.updated),
         categories |-> d.categories,
         primary_category |-> d.primary_category,
         pdf_url |-> d.pdf_url,
         comment |-> d.comment,
         journal_ref |-> d.journal_ref,
         doi |-> d.doi,
         downloaded_at |-> d.downloaded_at,
         save_dir |-> d.save_dir,
         pdf_filename |-> d.pdf_filename,
         listen_status |-> d.listen_status,
         last_listened_at |-> IF d.last_listened_at # <<>>
                              THEN <<fromisoformat(d.last_listened_at[1])>>
                              ELSE <<>>],
     status |-> d.status]

\* Paper.from_dict(data): pdf_path is dropped, the datetimes are parsed,
\* the authors rebuilt, and Paper(**data) runs __post_init__
from_dict(d) ==
    [paper |->
        [arxiv_id |-> post_init(d.arxiv_id),
         title |-> d.title,
         authors |-> [i \in 1..Len(d.authors) |->
                         [cls |-> "Author",
                          name |-> d.authors[i].name,
                          affiliation |-> d.authors[i].affiliation]],
         abstract |-> d.abstract,
         published |-> fromisoformat(d.published),
         updated |-> fromisoformat(d.updated),
         categories |-> d.categories,
         primary_category |-> d.primary_category,
         pdf_url |-> d.pdf_url,
         comment |-> d.comment,
         journal_ref |-> d.journal_ref,
         doi |-> d.doi,
         downloaded_at |-> IF d.downloaded_at # <<>>
                           THEN <<fromisoformat(d.downloaded_at[1])>>
                           ELSE <<>>,
         save_dir |-> d.save_dir,
         pdf_filename |-> d.pdf_filename,
         listen_status |-> d.listen_status,
         last_listened_at |-> IF d.last_listened_at # <<>>
                              THEN <<fromisoformat(d.last_listened_at[1])>>
                              ELSE <<>>],
     status |-> d.status]

\* No state document on disk
NoFile == [dir |-> <<>>, exists |-> FALSE]

\* What save_to_disk leaves on disk: papers/{cleaned_title}/paper_state.json
\* holding json.dump(self.to_dict())
StateFile(p, st) ==
    [dir |-> clean_filename(p.title), exists |-> TRUE, json |-> to_dict(p, st)]

\* Paper(...) as the caller builds it from a search result
NewPaper(id, title, published, downloaded) ==
    [arxiv_id |-> post_init(id),
     title |-> title,
     authors |-> <<[cls |-> "Author", name |-> <<"A">>,
                    affiliation |-> <<>>],
                   [cls |-> "Author", name |-> <<"B">>,
                    affiliation |-> <<<<"U">>>>]>>,
     abstract |-> <<"x">>,
     published |-> published,
     updated |-> published,
     categories |-> <<<<"c", "s">>>>,
     primary_category |-> <<"c", "s">>,
     pdf_url |-> <<"u">>,
     comment |-> <<>>,
     journal_ref |-> <<>>,
     doi |-> <<<<"1", "0">>>>,
     downloaded_at |-> downloaded,
     save_dir |-> IF downloaded = <<>> THEN <<>> ELSE <<<<"d">>>>,
     pdf_filename |-> IF downloaded = <<>> THEN <<>> ELSE <<<<"p">>>>,
     listen_status |-> "unlistened",
     last_listened_at |-> <<>>]

\* download_dir = self.storage_dir / "papers" / paper.arxiv_id: the
\* directory the stages read and write their artifacts in
ArtifactDir(p) == p.arxiv_id

\* The arXiv ids, the titles and the Paper objects of the model
ArxivIds == {<<"2", "3">>, <<"2", "3", "v", "2">>}

Titles ==
    {<<"a">>,
     <<"2", "3">>,
     <<"a", " ", "b">>,
     <<" ", "a", ":", " ", "\t", "b", " ">>,
     [i \in 1..(MaxLength + 1) |-> "a"]}

Papers ==
    {NewPaper(id, t, d, dl) :
        id \in ArxivIds, t \in Titles, d \in DateTimes,
        dl \in {<<>>} \cup {<<x>> : x \in Nows}}

\* The name patterns the reconstruction helpers glob for, one per kind of
\* artifact file under papers/<arxiv_id>/
Patterns == {"*.pdf", "*.json", "*.md", "summary_*.txt", "*.mp3"}

\* No artifact file in the paper's directory, nothing reconstructed
NoStore == [files |-> [g \in Patterns |-> {}], pick |-> [g \in Patterns |-> <<>>]]

\* No second orchestrator is running
NoRuns == [p |-> <<>>, st |-> <<>>, at |-> <<>>, pc |-> <<>>,
           docs |-> {}, writes |-> {}]

\* The paper the pipeline runs are made on
ThePaper ==
    NewPaper(<<"2", "3", "v", "2">>, <<"a", " ", "b">>,
             [day |-> "2023-01-30", us |-> "0", tz |-> "+00:00"], <<>>)

----------------------------------------------------------------------------
(* Stage blocks of process_paper                                           *)

\* The stage blocks taken in the order of a list that names four stages
CurAsListed ==
    IF Len(arg) = Len(StageOrder) THEN arg[stg] ELSE StageOrder[stg]

\* The stage whose block is being executed
Cur == StageOrder[stg]

\* The summarize block reloading the download result
PrereqDownload(X) ==
    CASE X = "extract"   -> "download"
      [] X = "summarize" -> "download"
      [] X = "audio"     -> "summarize"
      [] OTHER           -> "none"

\* The stage whose result a stage block needs: extract needs the download
\* result, summarize the extraction result, audio the summary result
Prereq(X) ==
    CASE X = "extract"   -> "download"
      [] X = "summarize" -> "extract"
      [] X = "audio"     -> "summarize"
      [] OTHER           -> "none"

\* Guards that hold in every non-terminal state
CanRunAny(X, s) == s \in NonTerminal

CanRun(X, s) ==
    CASE X = "download"  -> can_download(s)
      [] X = "extract"   -> can_extract(s)
      [] X = "summarize" -> can_summarize(s)
      [] X = "audio"     -> can_generate_audio(s)

\* The stages argument left out (stages=None), as a list
NoList == <<"None">>

\* The stages of S listed in the order of the stage blocks
ListOf(S) == SelectSeq(StageOrder, LAMBDA X : X \in S)

\* The stage lists callers pass: nothing, every list in the order of the
\* stage blocks, and lists out of order and with repetitions
StageLists ==
    {NoList}
        \cup {ListOf(S) : S \in SUBSET Stages}
        \cup {<<"audio", "summarize", "extract", "download">>,
              <<"extract", "download", "extract">>,
              <<"download", "download">>}

\* The stages argument left out (stages=None)
NoStageList == {"None"}

\* `"X" in stages`: the list is only tested for membership
AsSet(L) == IF L = NoList THEN NoStageList ELSE {L[i] : i \in 1..Len(L)}

\* The default stage list without the audio stage
DefaultStagesNoAudio(S) ==
    IF S = {} \/ S = NoStageList THEN Stages \ {"audio"} ELSE S

\* stages = stages or ["download", "extract", "summarize", "audio"]:
\* None and the empty list both select all four stages
DefaultStages(S) == IF S = {} \/ S = NoStageList THEN Stages ELSE S

NoResults == [X \in Stages |-> "none"]

Init ==
    /\ status = "new"
    /\ disk = "none"
    /\ art = {}
    /\ pc = "idle"
    /\ stg = 0
    /\ stages = {}
    /\ req = {}
    /\ res = NoResults
    /\ errors = 0
    /\ raised = "none"
    /\ op = "none"
    /\ ev = "none"
    /\ entry = "new"
    /\ invoked = <<>>
    /\ exc = {}
    /\ dirty = FALSE
    /\ arg = <<>>
    /\ ran = {}
    /\ direct = FALSE
    /\ store = NoStore
    /\ paper = ThePaper
    /\ file = NoFile
    /\ two = NoRuns

\* Body of process_paper up to the try block: workflow and result are
\* created, the stage list is defaulted
EnterProcess(S) ==
    /\ stages' = DefaultStages(S)
    /\ req' = S
    /\ res' = NoResults
    /\ errors' = 0
    /\ raised' = "none"
    /\ invoked' = <<>>
    /\ exc' = {}
    /\ entry' = status
    /\ ev' = "none"
    /\ stg' = 1
    /\ pc' = "guard"

\* process_paper(paper, stages)
process_paper(L) ==
    /\ pc = "idle"
    /\ EnterProcess(AsSet(L))
    /\ op' = "process"
    /\ dirty' = FALSE
    /\ UNCHANGED <<status, disk, art>>
    /\ UNCHANGED <<paper, file>>
    /\ UNCHANGED two
    /\ arg' = L
    /\ UNCHANGED <<ran, direct, store>>

\* The stage lists of resume_paper shifted by one stage
ResumeStagesOffByOne(s) ==
    CASE s = "new"        -> {"extract", "summarize", "audio"}
      [] s = "downloaded" -> {"summarize", "audio"}
      [] s = "extracted"  -> {"audio"}
      [] OTHER            -> {}

\* resume_paper asking for the download stage whatever the state
ResumeStagesDownloadOnly(s) ==
    CASE s \in {"new", "downloaded", "extracted", "summarized"} -> {"download"}
      [] OTHER -> {}

\* The stage list resume_paper computes from the current state
ResumeStages(s) ==
    CASE s = "new"        -> {"download", "extract", "summarize", "audio"}
      [] s = "downloaded" -> {"extract", "summarize", "audio"}
      [] s = "extracted"  -> {"summarize", "audio"}
      [] s = "summarized" -> {"audio"}
      [] OTHER            -> {}

\* resume_paper(paper): from audio_generated it finalizes its own workflow
\* and then calls process_paper with the computed list
resume_paper ==
    /\ pc = "idle"
    /\ status' = IF status = "audio_generated"
                 THEN Target("finalize", status) ELSE status
    /\ dirty' = (status = "audio_generated")
    /\ EnterProcess(ResumeStages(status))
    /\ op' = "resume"
    /\ UNCHANGED <<disk, art>>
    /\ UNCHANGED <<paper, file>>
    /\ UNCHANGED two
    /\ arg' = ListOf(ResumeStages(status))
    /\ UNCHANGED <<ran, direct, store>>

\* Control moves to the next stage block, or to the finalize check
Advance ==
    IF stg < Len(StageOrder)
    THEN stg' = stg + 1 /\ pc' = "guard"
    ELSE stg' = 0 /\ pc' = "finalize"

\* A requested stage whose guard is false starts anyway, so that start_X is
\* rejected and the call takes its failure path
CheckStageRaise ==
    /\ pc = "guard"
    /\ IF Cur \in stages /\ CanRun(Cur, status)
       THEN /\ stg' = stg
            /\ pc' = IF Prereq(Cur) # "none" /\ res[Prereq(Cur)] = "none"
                     THEN "load" ELSE "start"
       ELSE IF Cur \in stages
            THEN stg' = stg /\ pc' = "except"
            ELSE Advance
    /\ UNCHANGED <<status, disk, art, stages, req, res, errors, raised, op, ev,
                   entry, invoked, exc, dirty>>
    /\ UNCHANGED <<paper, file>>
    /\ UNCHANGED two
    /\ UNCHANGED arg
    /\ UNCHANGED <<ran, direct, store>>

\* if "X" in stages and workflow.can_X(): ... if not result.<prereq>:
CheckStage ==
    /\ pc = "guard"
    /\ IF Cur \in stages /\ CanRun(Cur, status)
       THEN /\ stg' = stg
            /\ pc' = IF Prereq(Cur) # "none" /\ res[Prereq(Cur)] = "none"
                     THEN "load" ELSE "start"
       ELSE Advance
    /\ UNCHANGED <<status, disk, art, stages, req, res, errors, raised, op, ev,
                   entry, invoked, exc, dirty>>
    /\ UNCHANGED <<paper, file>>
    /\ UNCHANGED two
    /\ UNCHANGED arg
    /\ UNCHANGED <<ran, direct, store>>

\* The lazy reload raising when no artifact is found
LoadPrereqRaise ==
    /\ pc = "load"
    /\ IF Prereq(Cur) \in art
       THEN \/ /\ res' = [res EXCEPT ![Prereq(Cur)] = "loaded"]
               /\ pc' = "start"
               /\ UNCHANGED <<stg, exc>>
            \/ /\ exc' = exc \cup {"reload"}
               /\ pc' = "except"
               /\ UNCHANGED <<stg, res>>
       ELSE /\ exc' = exc \cup {"reload"}
            /\ pc' = "except"
            /\ UNCHANGED <<stg, res>>
    /\ UNCHANGED <<status, disk, art, stages, req, errors, raised, op, ev, entry,
                   invoked, dirty>>
    /\ UNCHANGED <<paper, file>>
    /\ UNCHANGED two
    /\ UNCHANGED arg
    /\ UNCHANGED <<ran, direct, store>>

\* result.<prereq> = self._load_<prereq>_result(paper): the artifact is
\* found and read, or reading it raises, or nothing matches and the stage
\* block is left without running the stage
LoadPrereq ==
    /\ pc = "load"
    /\ IF Prereq(Cur) \in art
       THEN \/ /\ res' = [res EXCEPT ![Prereq(Cur)] = "loaded"]
               /\ pc' = "start"
               /\ UNCHANGED <<stg, exc>>
            \/ /\ exc' = exc \cup {"reload"}
               /\ pc' = "except"
               /\ UNCHANGED <<stg, res>>
       ELSE Advance /\ UNCHANGED <<res, exc>>
    /\ UNCHANGED <<status, disk, art, stages, req, errors, raised, op, ev, entry,
                   invoked, dirty>>
    /\ UNCHANGED <<paper, file>>
    /\ UNCHANGED two
    /\ UNCHANGED arg
    /\ UNCHANGED <<ran, direct, store>>

\* _stage_X without the workflow.start_X() call
StartStageSkip ==
    /\ pc = "start"
    /\ pc' = "call"
    /\ UNCHANGED <<status, dirty, exc, disk, art, stg, stages, req, res,
                   errors, raised, op, ev, entry, invoked>>
    /\ UNCHANGED <<paper, file>>
    /\ UNCHANGED two
    /\ UNCHANGED arg
    /\ UNCHANGED <<ran, direct, store>>

\* workflow.start_X() at the top of _stage_X
StartStage ==
    /\ pc = "start"
    /\ IF Allowed(StartEvent(Cur), status)
       THEN /\ status' = Target(StartEvent(Cur), status)
            /\ dirty' = TRUE
            /\ pc' = "call"
            /\ exc' = exc
       ELSE /\ exc' = exc \cup {"transition"}
            /\ pc' = "except"
            /\ UNCHANGED <<status, dirty>>
    /\ UNCHANGED <<disk, art, stg, stages, req, res, errors, raised, op, ev,
                   entry, invoked>>
    /\ UNCHANGED <<paper, file>>
    /\ UNCHANGED two
    /\ UNCHANGED arg
    /\ UNCHANGED <<ran, direct, store>>

\* The collaborator call with the exception dropped inside _stage_X
CallCollaboratorSwallow ==
    /\ pc = "call"
    /\ invoked' = Append(invoked, Cur)
    /\ \/ /\ art' = art \cup {Cur}
          /\ res' = [res EXCEPT ![Cur] = "fresh"]
          /\ pc' = "complete"
          /\ exc' = exc
          /\ stg' = stg
       \/ /\ art' \in {art, art \cup {Cur}}
          /\ exc' = exc \cup {Cur}
          /\ Advance
          /\ res' = res
    /\ UNCHANGED <<status, disk, stages, req, errors, raised, op, ev, entry,
                   dirty>>
    /\ UNCHANGED <<paper, file>>
    /\ UNCHANGED two
    /\ UNCHANGED arg
    /\ ran' = ran \cup {Cur}
    /\ UNCHANGED <<direct, store>>

\* The collaborator call returning a result whose artifact was not written
CallCollaboratorNoArtifact ==
    /\ pc = "call"
    /\ invoked' = Append(invoked, Cur)
    /\ \/ /\ art' = art
          /\ res' = [res EXCEPT ![Cur] = "fresh"]
          /\ pc' = "complete"
          /\ exc' = exc
          /\ stg' = stg
       \/ /\ art' \in {art, art \cup {Cur}}
          /\ exc' = exc \cup {Cur}
          /\ pc' = "except"
          /\ stg' = stg
          /\ res' = res
    /\ UNCHANGED <<status, disk, stages, req, errors, raised, op, ev, entry,
                   dirty>>
    /\ UNCHANGED <<paper, file>>
    /\ UNCHANGED two
    /\ UNCHANGED arg
    /\ ran' = ran \cup {Cur}
    /\ UNCHANGED <<direct, store>>

\* The download stage recording where and when the PDF was saved in the
\* Paper object
CallCollaboratorStamp ==
    /\ pc = "call"
    /\ invoked' = Append(invoked, Cur)
    /\ \/ /\ art' = art \cup {Cur}
          /\ res' = [res EXCEPT ![Cur] = "fresh"]
          /\ pc' = "complete"
          /\ exc' = exc
          /\ stg' = stg
       \/ /\ art' \in {art, art \cup {Cur}}
          /\ exc' = exc \cup {Cur}
          /\ pc' = "except"
          /\ stg' = stg
          /\ res' = res
    /\ UNCHANGED <<status, disk, stages, req, errors, raised, op, ev, entry,
                   dirty>>
    /\ paper' = IF Cur = "download" /\ pc' = "complete"
                THEN [paper EXCEPT !.downloaded_at =
                                       <<[day |-> "2023-01-30", us |-> "0",
                                          tz |-> "naive"]>>,
                                   !.save_dir = <<<<"d">>>>,
                                   !.pdf_filename = <<<<"p">>>>]
                ELSE paper
    /\ UNCHANGED file
    /\ UNCHANGED two
    /\ UNCHANGED arg
    /\ ran' = ran \cup {Cur}
    /\ UNCHANGED <<direct, store>>

\* The collaborator call of _stage_X: it returns a result after writing
\* its artifact, or raises (with or without the artifact written)
CallCollaborator ==
    /\ pc = "call"
    /\ invoked' = Append(invoked, Cur)
    /\ \/ /\ art' = art \cup {Cur}
          /\ res' = [res EXCEPT ![Cur] = "fresh"]
          /\ pc' = "complete"
          /\ exc' = exc
          /\ stg' = stg
       \/ /\ art' \in {art, art \cup {Cur}}
          /\ exc' = exc \cup {Cur}
          /\ pc' = "except"
          /\ stg' = stg
          /\ res' = res
    /\ UNCHANGED <<status, disk, stages, req, errors, raised, op, ev, entry,
                   dirty>>
    /\ UNCHANGED <<paper, file>>
    /\ UNCHANGED two
    /\ UNCHANGED arg
    /\ ran' = ran \cup {Cur}
    /\ UNCHANGED <<direct, store>>

\* complete_X with no state write after it
CompleteStageNoSave ==
    /\ pc = "complete"
    /\ status' = Target(CompleteEvent(Cur), status)
    /\ dirty' = TRUE
    /\ Advance
    /\ UNCHANGED <<disk, art, stages, req, res, errors, raised, op, ev, entry,
                   invoked, exc>>
    /\ UNCHANGED <<paper, file>>
    /\ UNCHANGED two
    /\ UNCHANGED arg
    /\ UNCHANGED <<ran, direct, store>>

\* workflow.complete_X() after the collaborator returned
CompleteStage ==
    /\ pc = "complete"
    /\ IF Allowed(CompleteEvent(Cur), status)
       THEN /\ status' = Target(CompleteEvent(Cur), status)
            /\ dirty' = TRUE
            /\ pc' = "save"
            /\ exc' = exc
       ELSE /\ exc' = exc \cup {"transition"}
            /\ pc' = "except"
            /\ UNCHANGED <<status, dirty>>
    /\ stg' = stg
    /\ UNCHANGED <<disk, art, stages, req, res, errors, raised, op, ev,
                   entry, invoked>>
    /\ UNCHANGED <<paper, file>>
    /\ UNCHANGED two
    /\ UNCHANGED arg
    /\ UNCHANGED <<ran, direct, store>>

\* The state write storing the status the call was entered with
save_paper_state_stale ==
    /\ pc \in {"save", "finalize_save", "except_save"}
    /\ \/ disk' = entry /\ file' = StateFile(paper, entry) /\ exc' = exc
       \/ disk' = disk /\ file' = file /\ exc' = exc \cup {"write"}
    /\ dirty' = FALSE
    /\ IF pc = "save"
       THEN Advance
       ELSE pc' = "idle" /\ stg' = 0
    /\ UNCHANGED <<status, art, stages, req, res, errors, raised, op, ev, entry,
                   invoked>>
    /\ UNCHANGED paper
    /\ UNCHANGED two
    /\ UNCHANGED arg
    /\ UNCHANGED <<ran, direct, store>>

\* A failed state write reaching the exception handler of process_paper
save_paper_state_raise ==
    /\ pc \in {"save", "finalize_save", "except_save"}
    /\ \/ /\ disk' = status /\ file' = StateFile(paper, status) /\ exc' = exc
          /\ IF pc = "save"
             THEN Advance
             ELSE pc' = "idle" /\ stg' = 0
       \/ /\ disk' = disk /\ file' = file /\ exc' = exc \cup {"write"}
          /\ pc' = "except" /\ stg' = stg
    /\ dirty' = FALSE
    /\ UNCHANGED <<status, art, stages, req, res, errors, raised, op, ev, entry,
                   invoked>>
    /\ UNCHANGED paper
    /\ UNCHANGED two
    /\ UNCHANGED arg
    /\ UNCHANGED <<ran, direct, store>>

\* _save_paper_state(paper): the document is rewritten with the current
\* status, or the write raises and the exception is logged and dropped
save_paper_state ==
    /\ pc \in {"save", "finalize_save", "except_save"}
    /\ \/ disk' = status /\ file' = StateFile(paper, status) /\ exc' = exc
       \/ disk' = disk /\ file' = file /\ exc' = exc \cup {"write"}
    /\ dirty' = FALSE
    /\ IF pc = "save"
       THEN Advance
       ELSE pc' = "idle" /\ stg' = 0
    /\ UNCHANGED <<status, art, stages, req, res, errors, raised, op, ev, entry,
                   invoked>>
    /\ UNCHANGED paper
    /\ UNCHANGED two
    /\ UNCHANGED arg
    /\ UNCHANGED <<ran, direct, store>>

\* finalize with no state write after it
FinalizeNoSave ==
    /\ pc = "finalize"
    /\ status' = IF can_finalize(status)
                 THEN Target("finalize", status) ELSE status
    /\ dirty' = (dirty \/ can_finalize(status))
    /\ pc' = "idle"
    /\ UNCHANGED <<disk, art, stg, stages, req, res, errors, raised, op, ev,
                   entry, invoked, exc>>
    /\ UNCHANGED <<paper, file>>
    /\ UNCHANGED two
    /\ UNCHANGED arg
    /\ UNCHANGED <<ran, direct, store>>

\* if workflow.can_finalize(): workflow.finalize(); save; then return
Finalize ==
    /\ pc = "finalize"
    /\ IF can_finalize(status)
       THEN /\ status' = Target("finalize", status)
            /\ dirty' = TRUE
            /\ pc' = "finalize_save"
       ELSE /\ pc' = "idle"
            /\ UNCHANGED <<status, dirty>>
    /\ UNCHANGED <<disk, art, stg, stages, req, res, errors, raised, op, ev,
                   entry, invoked, exc>>
    /\ UNCHANGED <<paper, file>>
    /\ UNCHANGED two
    /\ UNCHANGED arg
    /\ UNCHANGED <<ran, direct, store>>

\* The exception handler returning a result without the stage results
HandleExceptionReset ==
    /\ pc = "except"
    /\ errors' = errors + 1
    /\ res' = NoResults
    /\ IF Allowed("mark_failed", status)
       THEN /\ status' = Target("mark_failed", status)
            /\ dirty' = TRUE
            /\ pc' = "except_save"
            /\ UNCHANGED <<raised, stg>>
       ELSE /\ raised' = "TransitionNotAllowed"
            /\ pc' = "idle"
            /\ stg' = 0
            /\ UNCHANGED <<status, dirty>>
    /\ UNCHANGED <<disk, art, stages, req, op, ev, entry, invoked, exc>>
    /\ UNCHANGED <<paper, file>>
    /\ UNCHANGED two
    /\ UNCHANGED arg
    /\ UNCHANGED <<ran, direct, store>>

\* except Exception as e: the message is appended, the workflow is marked
\* failed and the state saved; a rejected mark_failed leaves the handler
\* and reaches the caller
HandleException ==
    /\ pc = "except"
    /\ errors' = errors + 1
    /\ IF Allowed("mark_failed", status)
       THEN /\ status' = Target("mark_failed", status)
            /\ dirty' = TRUE
            /\ pc' = "except_save"
            /\ UNCHANGED <<raised, stg>>
       ELSE /\ raised' = "TransitionNotAllowed"
            /\ pc' = "idle"
            /\ stg' = 0
            /\ UNCHANGED <<status, dirty>>
    /\ UNCHANGED <<disk, art, stages, req, res, op, ev, entry, invoked, exc>>
    /\ UNCHANGED <<paper, file>>
    /\ UNCHANGED two
    /\ UNCHANGED arg
    /\ UNCHANGED <<ran, direct, store>>

----------------------------------------------------------------------------
(* What the caller does between calls                                      *)

\* A transition method called directly on a workflow bound to the paper
DirectTransition(e) ==
    /\ pc = "idle"
    /\ op' = "direct"
    /\ ev' = e
    /\ entry' = status
    /\ status' = Target(e, status)
    /\ raised' = IF Allowed(e, status) THEN "none" ELSE "TransitionNotAllowed"
    /\ errors' = 0
    /\ invoked' = <<>>
    /\ exc' = {}
    /\ dirty' = FALSE
    /\ res' = NoResults
    /\ stages' = {}
    /\ req' = {}
    /\ UNCHANGED <<disk, art, pc, stg>>
    /\ UNCHANGED <<paper, file>>
    /\ UNCHANGED two
    /\ arg' = <<>>
    /\ direct' = TRUE
    /\ UNCHANGED <<ran, store>>

\* A new Paper object for the same paper (a new search result): status is
\* the dataclass default
FreshPaper ==
    /\ pc = "idle"
    /\ op' = "fresh"
    /\ status' = "new"
    /\ entry' = "new"
    /\ ev' = "none"
    /\ raised' = "none"
    /\ errors' = 0
    /\ invoked' = <<>>
    /\ exc' = {}
    /\ dirty' = FALSE
    /\ res' = NoResults
    /\ stages' = {}
    /\ req' = {}
    /\ UNCHANGED <<disk, art, pc, stg>>
    /\ UNCHANGED <<paper, file>>
    /\ UNCHANGED two
    /\ arg' = <<>>
    /\ ran' = {}
    /\ UNCHANGED <<direct, store>>

\* The load returning the record with the default status instead of the
\* status in the document
load_from_disk_reset ==
    /\ pc = "idle"
    /\ file.exists
    /\ file.dir = clean_filename(paper.title)
    /\ op' = "load"
    /\ status' = "new"
    /\ paper' = from_dict(file.json).paper
    /\ entry' = status'
    /\ ev' = "none"
    /\ raised' = "none"
    /\ errors' = 0
    /\ invoked' = <<>>
    /\ exc' = {}
    /\ dirty' = FALSE
    /\ res' = NoResults
    /\ stages' = {}
    /\ req' = {}
    /\ UNCHANGED <<disk, art, pc, stg, file>>
    /\ UNCHANGED two
    /\ arg' = <<>>
    /\ ran' = {}
    /\ UNCHANGED <<direct, store>>

\* Paper.load_from_disk(paper.title, storage_dir): the Paper object is
\* replaced by the one read from the state document
load_from_disk ==
    /\ pc = "idle"
    /\ file.exists
    /\ file.dir = clean_filename(paper.title)
    /\ op' = "load"
    /\ status' = from_dict(file.json).status
    /\ paper' = from_dict(file.json).paper
    /\ entry' = status'
    /\ ev' = "none"
    /\ raised' = "none"
    /\ errors' = 0
    /\ invoked' = <<>>
    /\ exc' = {}
    /\ dirty' = FALSE
    /\ res' = NoResults
    /\ stages' = {}
    /\ req' = {}
    /\ UNCHANGED <<disk, art, pc, stg, file>>
    /\ UNCHANGED two
    /\ arg' = <<>>
    /\ ran' = {}
    /\ UNCHANGED <<direct, store>>

\* pipeline.load_paper(paper.arxiv_id): Paper.load_from_disk is given the id
\* as the title, so the document is looked for under the cleaned id; the
\* Paper object is replaced by the one read, or None is returned and the
\* caller keeps the object it has
load_paper ==
    /\ pc = "idle"
    /\ IF file.exists /\ file.dir = clean_filename(paper.arxiv_id)
       THEN /\ op' = "load"
            /\ status' = from_dict(file.json).status
            /\ paper' = from_dict(file.json).paper
       ELSE /\ op' = "load_none"
            /\ UNCHANGED <<status, paper>>
    /\ entry' = status'
    /\ ev' = "none"
    /\ raised' = "none"
    /\ errors' = 0
    /\ invoked' = <<>>
    /\ exc' = {}
    /\ dirty' = FALSE
    /\ res' = NoResults
    /\ stages' = {}
    /\ req' = {}
    /\ UNCHANGED <<disk, art, pc, stg, file>>
    /\ UNCHANGED two
    /\ arg' = <<>>
    /\ ran' = IF op' = "load" THEN {} ELSE ran
    /\ UNCHANGED <<direct, store>>

\* paper.save_to_disk(storage_dir) called on the Paper object: the document
\* is written under the cleaned title, or the write raises to the caller
save_to_disk ==
    /\ pc = "idle"
    /\ \/ /\ disk' = status
          /\ file' = StateFile(paper, status)
          /\ op' = "save"
          /\ raised' = "none"
       \/ /\ UNCHANGED <<disk, file>>
          /\ op' = "save_raised"
          /\ raised' = "OSError"
    /\ entry' = status
    /\ ev' = "none"
    /\ errors' = 0
    /\ invoked' = <<>>
    /\ exc' = {}
    /\ dirty' = FALSE
    /\ res' = NoResults
    /\ stages' = {}
    /\ req' = {}
    /\ UNCHANGED <<status, paper, art, pc, stg>>
    /\ UNCHANGED two
    /\ arg' = <<>>
    /\ UNCHANGED <<ran, direct, store>>

\* paper.mark_listened(storage_dir): the listen fields are set to
\* "listened" and datetime.now(), then the paper is saved
mark_listened(now) ==
    /\ pc = "idle"
    /\ paper' = [paper EXCEPT !.listen_status = "listened",
                              !.last_listened_at = <<now>>]
    /\ \/ /\ disk' = status
          /\ file' = StateFile(paper', status)
          /\ op' = "save"
          /\ raised' = "none"
       \/ /\ UNCHANGED <<disk, file>>
          /\ op' = "save_raised"
          /\ raised' = "OSError"
    /\ entry' = status
    /\ ev' = "none"
    /\ errors' = 0
    /\ invoked' = <<>>
    /\ exc' = {}
    /\ dirty' = FALSE
    /\ res' = NoResults
    /\ stages' = {}
    /\ req' = {}
    /\ UNCHANGED <<status, art, pc, stg>>
    /\ UNCHANGED two
    /\ arg' = <<>>
    /\ UNCHANGED <<ran, direct, store>>

\* paper.mark_unlistened(storage_dir): the listen fields are reset, then
\* the paper is saved
mark_unlistened ==
    /\ pc = "idle"
    /\ paper' = [paper EXCEPT !.listen_status = "unlistened",
                              !.last_listened_at = <<>>]
    /\ \/ /\ disk' = status
          /\ file' = StateFile(paper', status)
          /\ op' = "save"
          /\ raised' = "none"
       \/ /\ UNCHANGED <<disk, file>>
          /\ op' = "save_raised"
          /\ raised' = "OSError"
    /\ entry' = status
    /\ ev' = "none"
    /\ errors' = 0
    /\ invoked' = <<>>
    /\ exc' = {}
    /\ dirty' = FALSE
    /\ res' = NoResults
    /\ stages' = {}
    /\ req' = {}
    /\ UNCHANGED <<status, art, pc, stg>>
    /\ UNCHANGED two
    /\ arg' = <<>>
    /\ UNCHANGED <<ran, direct, store>>

Next ==
    \/ \E L \in StageLists : process_paper(L)
    \/ resume_paper
    \/ CheckStage
    \/ LoadPrereq
    \/ StartStage
    \/ CallCollaborator
    \/ CompleteStage
    \/ save_paper_state
    \/ Finalize
    \/ HandleException
    \/ \E e \in Events : DirectTransition(e)
    \/ FreshPaper
    \/ load_from_disk
    \/ load_paper

Spec == Init /\ [][Next]_vars

\* Any Paper object, in any state of the workflow, saved and loaded by the
\* caller between pipeline calls
InitPaper ==
    /\ status \in States
    /\ paper \in Papers
    /\ disk = "none"
    /\ file = NoFile
    /\ art = {}
    /\ pc = "idle"
    /\ stg = 0
    /\ stages = {}
    /\ req = {}
    /\ res = NoResults
    /\ errors = 0
    /\ raised = "none"
    /\ op = "none"
    /\ ev = "none"
    /\ entry = status
    /\ invoked = <<>>
    /\ exc = {}
    /\ dirty = FALSE
    /\ arg = <<>>
    /\ ran = {}
    /\ direct = FALSE
    /\ store = NoStore
    /\ two = NoRuns

NextPaper ==
    \/ save_to_disk
    \/ \E now \in Nows : mark_listened(now)
    \/ mark_unlistened
    \/ load_from_disk
    \/ load_paper

SpecPaper == InitPaper /\ [][NextPaper]_vars

----------------------------------------------------------------------------
(* Two papers, two orchestrator instances, one storage root                *)

\* Titles of the second paper: one that cleans to a directory of its own,
\* two that clean to the directory of the first paper's title
TwoTitles == {<<"c">>, <<"a", ":", "b">>, <<"a", "\t", "b">>}

\* A paper with another arXiv id and another title than ThePaper
SecondPaper(t) ==
    NewPaper(<<"2", "4", "v", "1">>, t,
             [day |-> "2023-01-30", us |-> "0", tz |-> "+00:00"], <<>>)

\* Both papers new, nothing on disk, process_paper(paper) entered by both
\* instances
TwoStart(t) ==
    [p |-> <<ThePaper, SecondPaper(t)>>,
     st |-> <<"new", "new">>,
     at |-> <<1, 1>>,
     pc |-> <<"stage", "stage">>,
     docs |-> {},
     writes |-> {}]

\* The file a stage of instance i writes: it is under papers/{arxiv_id}/
ArtifactPath(i, X) == <<ArtifactDir(two.p[i]), X>>

\* The file _save_paper_state of instance i writes
StatePath(i) == <<clean_filename(two.p[i].title), "paper_state.json">>

\* _stage_X of instance i: start_X, the collaborator call, complete_X; or
\* the collaborator raises and the handler marks the workflow failed
RunStage(i) ==
    /\ two.pc[i] = "stage"
    /\ two.at[i] <= Len(StageOrder)
    /\ LET X == StageOrder[two.at[i]]
           started == Target(StartEvent(X), two.st[i])
       IN  /\ CanRun(X, two.st[i])
           /\ \/ two' = [two EXCEPT
                        !.st[i] = Target(CompleteEvent(X), started),
                        !.pc[i] = "save",
                        !.writes = @ \cup {[by |-> i,
                                            path |-> ArtifactPath(i, X)]}]
              \/ two' = [two EXCEPT
                        !.st[i] = Target("mark_failed", started),
                        !.pc[i] = "save"]
    /\ UNCHANGED <<one, store>>

\* if workflow.can_finalize(): workflow.finalize() of instance i
FinalizeRun(i) ==
    /\ two.pc[i] = "stage"
    /\ two.at[i] = Len(StageOrder) + 1
    /\ can_finalize(two.st[i])
    /\ two' = [two EXCEPT !.st[i] = Target("finalize", two.st[i]),
                          !.pc[i] = "save"]
    /\ UNCHANGED <<one, store>>

\* _save_paper_state of instance i: the document at the path of the cleaned
\* title is overwritten; the run goes on with the next stage block, or
\* returns after finalize or after the exception handler
SaveRun(i) ==
    /\ two.pc[i] = "save"
    /\ two' = [two EXCEPT
                 !.docs = {d \in @ : d.path # StatePath(i)} \cup
                          {[path |-> StatePath(i),
                            json |-> to_dict(two.p[i], two.st[i])]},
                 !.writes = @ \cup {[by |-> i, path |-> StatePath(i)]},
                 !.at[i] = @ + 1,
                 !.pc[i] = IF two.st[i] \in FinalStates
                           THEN "done" ELSE "stage"]
    /\ UNCHANGED <<one, store>>

InitTwo ==
    /\ status = "new"
    /\ disk = "none"
    /\ art = {}
    /\ pc = "idle"
    /\ stg = 0
    /\ stages = {}
    /\ req = {}
    /\ res = NoResults
    /\ errors = 0
    /\ raised = "none"
    /\ op = "none"
    /\ ev = "none"
    /\ entry = "new"
    /\ invoked = <<>>
    /\ exc = {}
    /\ dirty = FALSE
    /\ arg = <<>>
    /\ ran = {}
    /\ direct = FALSE
    /\ store = NoStore
    /\ paper = ThePaper
    /\ file = NoFile
    /\ two \in {TwoStart(t) : t \in TwoTitles}

NextTwo ==
    \/ \E i \in 1..2 : RunStage(i)
    \/ \E i \in 1..2 : FinalizeRun(i)
    \/ \E i \in 1..2 : SaveRun(i)

SpecTwo == InitTwo /\ [][NextTwo]_vars

-----------------------------------------------------------------------------
(* Reconstruction of stage results from the files under the paper's         *)
(* directory                                                                 *)

\* File names a collaborator may give an artifact: the download names its
\* files after the cleaned title, extraction after the stem of the PDF
FileNames == {"a", "b"}

\* Path.glob: the files of the directory that match the pattern; their order
\* is whatever the directory listing yields, so any of them can come first
glob(g) == store.files[g]

\* A collaborator (or an earlier run under another title) leaves a file that
\* matches pattern g; what was reconstructed from the old contents is dropped
WriteFile(g, n) ==
    /\ n \notin store.files[g]
    /\ store' = [files |-> [store.files EXCEPT ![g] = @ \cup {n}],
                 pick |-> [store.pick EXCEPT ![g] = <<>>]]
    /\ UNCHANGED <<one, two>>

\* files[0] of list(dir.glob(g)); None when nothing matches
First(g) == IF glob(g) = {} THEN {<<>>} ELSE {<<f>> : f \in glob(g)}

load_download_result ==
    /\ glob("*.pdf") # {} /\ glob("*.json") # {}
    /\ \E f \in First("*.pdf"), m \in First("*.json") :
           store' = [store EXCEPT !.pick["*.pdf"] = f, !.pick["*.json"] = m]
    /\ UNCHANGED <<one, two>>

load_extraction_result ==
    /\ glob("*.md") # {}
    /\ \E f \in First("*.md") : store' = [store EXCEPT !.pick["*.md"] = f]
    /\ UNCHANGED <<one, two>>

load_summary_result ==
    /\ glob("summary_*.txt") # {}
    /\ \E f \in First("summary_*.txt") :
           store' = [store EXCEPT !.pick["summary_*.txt"] = f]
    /\ UNCHANGED <<one, two>>

load_audio_result ==
    /\ glob("*.mp3") # {}
    /\ \E f \in First("*.mp3") : store' = [store EXCEPT !.pick["*.mp3"] = f]
    /\ UNCHANGED <<one, two>>

NextReload ==
    \/ \E g \in Patterns, n \in FileNames : WriteFile(g, n)
    \/ load_download_result
    \/ load_extraction_result
    \/ load_summary_result
    \/ load_audio_result

SpecReload == Init /\ [][NextReload]_vars

-----------------------------------------------------------------------------
(* Two process_paper invocations that share one Paper object                *)

\* The except branch of another process_paper invocation bound to the same
\* Paper, taken while this invocation is between two of its steps:
\* workflow.mark_failed() on the shared status, then _save_paper_state
SharedMarkFailed ==
    /\ pc # "idle"
    /\ Allowed("mark_failed", status)
    /\ status' = Target("mark_failed", status)
    /\ \/ disk' = status' /\ file' = StateFile(paper, status')
       \/ disk' = disk /\ file' = file
    /\ UNCHANGED <<art, pc, stg, stages, req, res, errors, raised, op, ev,
                   entry, invoked, exc, dirty, paper, arg, ran, direct>>
    /\ UNCHANGED <<store, two>>

NextShared ==
    \/ \E L \in StageLists : process_paper(L)
    \/ CheckStage
    \/ LoadPrereq
    \/ StartStage
    \/ CallCollaborator
    \/ CompleteStage
    \/ save_paper_state
    \/ Finalize
    \/ HandleException
    \/ SharedMarkFailed
    \/ FreshPaper

SpecShared == Init /\ [][NextShared]_vars

-----------------------------------------------------------------------------
(* The orchestrator wired to the repository's own services                  *)

\* The arguments _stage_X binds in its call to the service
Keywords(X) ==
    CASE X = "download"  -> {"paper", "destination_dir"}
      [] X = "extract"   -> {"pdf_path", "output_dir", "base_filename"}
      [] X = "summarize" -> {"paper", "extracted_content", "output_dir",
                             "prompt_name"}
      [] X = "audio"     -> {"text", "output_dir", "base_filename"}

\* The parameters of the service method _stage_X calls:
\* ArxivService.download_and_save_metadata, PdfService.extract_and_save,
\* LLMService.summarize_paper, AudioService.generate_audio
Parameters(X) ==
    CASE X = "download"  -> {"paper", "destination_dir"}
      [] X = "extract"   -> {"pdf_path", "output_dir", "base_filename"}
      [] X = "summarize" -> {"paper", "extracted_content", "prompt_name",
                             "max_tokens", "temperature"}
      [] X = "audio"     -> {"text", "output_dir", "base_filename", "voice"}

\* The service call of _stage_X: a keyword the method does not accept is a
\* TypeError raised before the method body runs; otherwise the service runs
\* and returns or raises as its provider does
CallService ==
    /\ pc = "call"
    /\ IF Keywords(Cur) \subseteq Parameters(Cur)
       THEN CallCollaborator
       ELSE /\ exc' = exc \cup {"TypeError"}
            /\ pc' = "except"
            /\ UNCHANGED <<status, disk, art, stg, stages, req, res, errors,
                           raised, op, ev, entry, invoked, dirty, paper, file,
                           arg, ran, direct>>
            /\ UNCHANGED <<store, two>>

NextRepo ==
    \/ \E L \in StageLists : process_paper(L)
    \/ resume_paper
    \/ CheckStage
    \/ LoadPrereq
    \/ StartStage
    \/ CallService
    \/ CompleteStage
    \/ save_paper_state
    \/ Finalize
    \/ HandleException
    \/ FreshPaper

SpecRepo == Init /\ [][NextRepo]_vars

TypeOK ==
    /\ status \in States
    /\ disk \in States \cup {"none"}
    /\ art \subseteq Stages
    /\ stg \in 0..Len(StageOrder)
    /\ stages \subseteq Stages
    /\ req \in (SUBSET Stages) \cup {NoStageList}
    /\ errors \in 0..1
    /\ file.exists <=> disk # "none"
    /\ file.exists => file.json.status = disk
    /\ ran \subseteq Stages
    /\ direct \in BOOLEAN
    /\ store.files \in [Patterns -> SUBSET FileNames]
    /\ \A g \in Patterns : store.pick[g] \in {<<>>} \cup {<<f>> : f \in store.files[g]}

----------------------------------------------------------------------------
(* Properties                                                              *)

Rank(s) == CHOOSE i \in 1..Len(Chain) : Chain[i] = s

StageIndex(X) == CHOOSE i \in 1..Len(StageOrder) : StageOrder[i] = X

InProgressStates == {InProgressState(X) : X \in Stages}

\* A process_paper or resume_paper call has returned (or raised)
Returned == pc = "idle" /\ op \in {"process", "resume"}

\* A collaborator or a lazy reload raised inside the call
StageRaised == exc \cap (Stages \cup {"reload"}) # {}

\* C1: during process and resume calls on one Paper object every change of
\* status is a move to a later state of the chain or a jump to failed; the
\* status never moves to an earlier chain state.
C1_LinearProgression ==
    [][(status' # status /\ op' \in {"process", "resume"}) =>
          \/ status' = "failed"
          \/ /\ status # "failed"
             /\ Rank(status') > Rank(status)]_vars

C1_Witness ==
    /\ Returned
    /\ entry = "new"
    /\ status = "completed"
    /\ invoked = StageOrder

\* C2 as stated: a returned process or resume call raised nothing to the
\* caller and every exception raised inside it (collaborator, lazy reload,
\* state write) has an entry in the error list of the result.
C2_Original ==
    Returned => (raised = "none" /\ (exc # {} => errors >= 1))

\* C2 amended: process and resume never raise to the caller; an exception of
\* a collaborator or of a lazy reload gives exactly one entry of the error
\* list, an exception of a state write is logged and gives no entry.
C2_NeverRaises ==
    Returned =>
        /\ raised = "none"
        /\ errors = (IF StageRaised THEN 1 ELSE 0)

C2_Witness ==
    /\ Returned
    /\ "summarize" \in exc
    /\ "write" \in exc
    /\ errors = 1
    /\ raised = "none"

C4_Reconstruction ==
    (/\ Returned
     /\ op = "process"
     /\ entry = "extracted"
     /\ stages = {"summarize"}
     /\ "extract" \in art
     /\ ~StageRaised)
    =>
        /\ res["extract"] = "loaded"
        /\ res["summarize"] = "fresh"
        /\ res["download"] = "none"
        /\ status = "summarized"
        /\ invoked = <<"summarize">>
        /\ errors = 0

C4_Witness ==
    /\ Returned
    /\ op = "process"
    /\ entry = "extracted"
    /\ stages = {"summarize"}
    /\ {"download", "extract"} \subseteq art
    /\ res["extract"] = "loaded"
    /\ res["summarize"] = "fresh"
    /\ status = "summarized"

\* C5 as stated: the collaborator of stage X is not invoked when the
\* artifact of X already exists at its conventional path (the result of X
\* is rebuilt from the artifact instead).
C5_Original ==
    (pc = "call" /\ op \in {"process", "resume"}) => Cur \notin art

\* The state of the last stage the call completed, the entry status when it
\* completed none
LastCompleted ==
    LET ok == SelectSeq(invoked, LAMBDA X : X \notin exc)
    IN  IF ok = <<>> THEN entry ELSE DoneState(ok[Len(ok)])

\* The status a call rests in after completing stage X: process finalizes
\* right after audio
RestAfter(X) == IF X = "audio" THEN "completed" ELSE DoneState(X)

TransitionOrCall ==
    \/ status' # status /\ op' \in {"process", "resume"}
    \/ pc = "call" /\ invoked' # invoked

\* C7 as stated: every transition made during process or resume is followed
\* by a write of the state document before the next transition or
\* collaborator call.
C7_Original == [][TransitionOrCall => ~dirty]_vars

\* C7 amended: every complete_X, every mark_failed and the finalize made by
\* process is followed by a write of the state document before the next
\* transition or collaborator call; start_X is followed by the collaborator
\* call with no write in between, and the finalize made by resume itself is
\* followed by no write.
C7_WriteAfterTransition ==
    /\ [][(TransitionOrCall /\ dirty) => status \in InProgressStates]_vars
    /\ [](pc = "idle" /\ dirty =>
             op = "resume" /\ entry = "audio_generated"
                 /\ status = "completed")

C7_Witness ==
    /\ pc = "guard"
    /\ stg = 3
    /\ invoked = <<"download", "extract">>
    /\ status = "extracted"
    /\ disk = "extracted"
    /\ ~dirty

\* C8: when process or resume returns after changing the status and no
\* state write failed, the persisted status is the in-memory status.
C8_Original ==
    (Returned /\ status # entry /\ "write" \notin exc) => disk = status

\* C9: mark_failed called in failed raises nothing and leaves the state
\* failed.
C9_Original ==
    (op = "direct" /\ ev = "mark_failed" /\ entry = "failed") =>
        (raised = "none" /\ status = "failed")

\* C10: start_X called in a state other than the one before stage X, and
\* complete_X called in a state other than the in-progress state of X, raise
\* the invalid-transition error and leave the state unchanged.
C10_InvalidTransition ==
    \A X \in Stages :
        /\ (op = "direct" /\ ev = StartEvent(X) /\ entry # ReadyState(X)) =>
               (raised = "TransitionNotAllowed" /\ status = entry)
        /\ (op = "direct" /\ ev = CompleteEvent(X)
                /\ entry # InProgressState(X)) =>
               (raised = "TransitionNotAllowed" /\ status = entry)

C10_Witness ==
    /\ op = "direct"
    /\ ev = "start_extract"
    /\ entry = "new"
    /\ status = "new"
    /\ raised = "TransitionNotAllowed"

\* The (event, source) pairs the chain and the failure edges allow, with
\* the state each leads to
ChainStep(e, s) ==
    \/ \E X \in Stages : e = StartEvent(X) /\ s = ReadyState(X)
    \/ \E X \in Stages : e = CompleteEvent(X) /\ s = InProgressState(X)
    \/ e = "finalize" /\ s = "audio_generated"

\* C11: the legal transitions are exactly the nine chain steps, each to the
\* next chain state, and mark_failed from each of the nine non-terminal
\* states to failed; every other (state, event) pair leaves the state as it
\* is.
C11_ExactTransitions ==
    op = "direct" =>
        IF ChainStep(ev, entry)
        THEN raised = "none" /\ status = Chain[Rank(entry) + 1]
        ELSE IF ev = "mark_failed" /\ entry \notin {"completed", "failed"}
        THEN raised = "none" /\ status = "failed"
        ELSE raised = "TransitionNotAllowed" /\ status = entry

C11_Witness ==
    /\ op = "direct"
    /\ ev = "mark_failed"
    /\ entry = "audio_generated"
    /\ status = "failed"

\* A step that replaces the Paper object instead of changing its status
Replaced == op' \in {"fresh", "load"}

\* C12: once the status of a record is completed or failed, no process
\* call, resume call or direct transition call changes it.
C12_TerminalStays ==
    [][(status \in {"completed", "failed"} /\ ~Replaced) =>
          status' = status]_vars

C12_Witness ==
    /\ op = "direct"
    /\ ev = "start_download"
    /\ entry = "failed"
    /\ status = "failed"
    /\ disk = "failed"

\* C13: the collaborator of stage X is invoked only while the machine is in
\* the in-progress state of X, and an in-progress state is entered only
\* from the resting state right before its stage.
C13_OneStageActive ==
    /\ [](pc = "call" => status = InProgressState(Cur))
    /\ [][(status' # status /\ status' \in InProgressStates /\ ~Replaced) =>
             \E X \in Stages :
                 status = ReadyState(X) /\ status' = InProgressState(X)]_vars

C13_Witness ==
    /\ pc = "call"
    /\ Cur = "summarize"
    /\ status = "summarizing"
    /\ invoked = <<"download", "extract">>

\* C14: process invokes the collaborator of a stage only if the stage is in
\* the stage list the caller gave, the empty list included.
C14_Original ==
    (op = "process" /\ req # NoStageList) =>
        \A i \in 1..Len(invoked) : invoked[i] \in req

\* The statuses process leaves a record in once stage S has completed
AfterStage(S) ==
    {RestAfter(T) : T \in {U \in Stages : StageIndex(U) >= StageIndex(S)}}

SecondRun(S) == op = "process" /\ req = {S} /\ entry \in AfterStage(S)

\* C15: process(paper, [S]) on a record that process left after completing
\* S changes nothing: the status, the artifacts and the state document stay
\* as they are, no collaborator is invoked and no error is recorded.
C15_IdempotentRerun ==
    /\ [](\A S \in Stages : SecondRun(S) =>
             /\ status = entry
             /\ invoked = <<>>
             /\ errors = 0
             /\ exc = {}
             /\ raised = "none"
             /\ res = NoResults)
    /\ [][\A S \in Stages : (SecondRun(S) /\ pc # "idle") =>
             (status' = status /\ art' = art /\ disk' = disk)]_vars

C15_Witness ==
    /\ Returned
    /\ SecondRun("extract")
    /\ entry = "extracted"
    /\ status = "extracted"
    /\ "extract" \in art

RestingStates == {"new", "downloaded", "extracted", "summarized",
                  "audio_generated"}

\* The stages that come after resting state s, in chain order
Remaining(s) ==
    SelectSeq(StageOrder, LAMBDA X : Rank(ReadyState(X)) >= Rank(s))

\* The artifact of the stage that led to resting state s is on disk
ArtifactOf(s) == \A X \in Stages : DoneState(X) = s => X \in art

\* C17 as stated: resume from a resting state, with collaborators that all
\* return, invokes exactly the collaborators of the stages after that state.
C17_Original ==
    (Returned /\ op = "resume" /\ entry \in RestingStates
        /\ exc \cap Stages = {})
    => invoked = Remaining(entry)

\* C17 amended: resume from a resting state, with collaborators that all
\* return and with the artifact of the stage before the first remaining one
\* found and read back, invokes exactly the collaborators of the stages
\* after that state, in chain order, and ends in completed.
C17_ResumeRemaining ==
    (Returned /\ op = "resume" /\ entry \in RestingStates
        /\ ~StageRaised /\ ArtifactOf(entry))
    => (invoked = Remaining(entry) /\ status = "completed")

C17_Witness ==
    /\ Returned
    /\ op = "resume"
    /\ entry = "downloaded"
    /\ invoked = <<"extract", "summarize", "audio">>
    /\ status = "completed"

\* C18: from new, with collaborators that return, process(paper,
\* ["download", "extract"]) ends in extracted with the extraction artifact
\* written, an Extraction result and no Summary result; resume on the record
\* it leaves then runs exactly summarize and audio and ends in completed.
C18_PartialThenResume ==
    /\ (Returned /\ op = "process" /\ req = {"download", "extract"}
            /\ entry = "new" /\ ~StageRaised)
       => /\ status = "extracted"
          /\ invoked = <<"download", "extract">>
          /\ res["extract"] = "fresh"
          /\ res["summarize"] = "none"
          /\ res["audio"] = "none"
          /\ "extract" \in art
    /\ (Returned /\ op = "resume" /\ entry = "extracted"
            /\ "extract" \in art /\ ~StageRaised)
       => /\ invoked = <<"summarize", "audio">>
          /\ status = "completed"

C18_Witness ==
    /\ Returned
    /\ op = "resume"
    /\ entry = "extracted"
    /\ invoked = <<"summarize", "audio">>
    /\ res["summarize"] = "fresh"
    /\ res["audio"] = "fresh"
    /\ status = "completed"
    /\ disk = "completed"
    /\ art = Stages

\* The record was in audio_generated when process was called, or the audio
\* stage completed during the call
AudioGenerated ==
    \/ entry = "audio_generated"
    \/ \E i \in 1..Len(invoked) : invoked[i] = "audio" /\ "audio" \notin exc

C20_RoundTrip ==
    [][(op = "save" /\ op' = "load") =>
          (paper' = paper /\ status' = status)]_vars

\* A paper with a title that needs cleaning, a versioned id, fractional
\* and offset datetimes, a download time and a listen time has been saved
\* in a non-initial status and loaded back
C20_Witness ==
    /\ op = "load"
    /\ status = "extracted"
    /\ paper.title = <<" ", "a", ":", " ", "\t", "b", " ">>
    /\ paper.published = [day |-> "2023-01-30", us |-> "250000", tz |-> "+00:00"]
    /\ paper.downloaded_at # <<>>
    /\ paper.last_listened_at # <<>>
    /\ paper.listen_status = "listened"

\* The statuses a state document holds once a stage has completed
StageCompleted == {DoneState(X) : X \in Stages} \cup {"completed"}

\* C21: when the state document holds the status of a completed stage,
\* load_paper with the paper's arXiv id does not return not-found
C21_Original ==
    op = "load_none" => disk \notin StageCompleted

\* C22: the state document is in the directory that holds the paper's
\* stage artifacts
C22_Original ==
    (file.exists /\ art # {}) => file.dir = ArtifactDir(paper)

\* C23: two papers that differ in arXiv id and in title, processed by two
\* instances in any interleaving: no path is written for both, and when
\* both runs have returned each paper's state document holds its own
\* record with its own status
C23_Original ==
    two # NoRuns =>
        /\ \A w1, w2 \in two.writes :
               w1.by # w2.by => w1.path # w2.path
        /\ (\A i \in 1..2 : two.pc[i] = "done") =>
               \A i \in 1..2 :
                   \E d \in two.docs :
                       /\ d.path = StatePath(i)
                       /\ d.json = to_dict(two.p[i], two.st[i])

\* C24: when the guard of a requested stage holds, its prerequisite result
\* was not produced in this call and no prerequisite artifact is on disk,
\* the stage block is left: no collaborator is invoked, the status is
\* unchanged and no error is added
C24_ReconstructionMiss ==
    [][(pc = "load" /\ Prereq(Cur) \notin art) =>
          /\ invoked' = invoked
          /\ status' = status
          /\ errors' = errors
          /\ exc' = exc
          /\ pc' \in {"guard", "finalize"}]_vars

\* process(["extract"]) on a paper at downloaded with no artifact on disk
\* has returned
C24_Witness ==
    /\ Returned
    /\ op = "process"
    /\ req = {"extract"}
    /\ entry = "downloaded"
    /\ art = {}
    /\ invoked = <<>>
    /\ status = "downloaded"
    /\ errors = 0

\* C25: a failed state write adds no error and does not change the status,
\* a failed write after a stage is followed by the next stage block, and a
\* full run from new in which only state writes failed ends completed with
\* all four stages run
C25_WriteFailure ==
    /\ [][(pc \in {"save", "finalize_save", "except_save"}
            /\ "write" \in exc') =>
              /\ errors' = errors
              /\ status' = status
              /\ raised' = raised
              /\ (pc = "save" => pc' \in {"guard", "finalize"})]_vars
    /\ [](  (Returned /\ op = "process" /\ entry = "new"
              /\ stages = Stages /\ exc = {"write"}) =>
                (status = "completed" /\ invoked = StageOrder
                    /\ errors = 0))

\* The write after complete_download failed and the run went on to
\* completed
C25_Witness ==
    /\ Returned
    /\ op = "process"
    /\ entry = "new"
    /\ exc = {"write"}
    /\ disk = "none"
    /\ status = "completed"
    /\ invoked = StageOrder
    /\ errors = 0

\* C26: inside process and resume no transition is rejected: every start_X,
\* complete_X, finalize and mark_failed is called in a state that has the
\* edge
C26_NoInvalidTransition ==
    op \in {"process", "resume"} =>
        ("transition" \notin exc /\ raised # "TransitionNotAllowed")

\* A run from new in which the audio collaborator raised: all start and
\* complete calls up to it and mark_failed were accepted
C26_Witness ==
    /\ Returned
    /\ entry = "new"
    /\ invoked = StageOrder
    /\ "audio" \in exc
    /\ status = "failed"
    /\ raised = "none"

\* The stages a run from new executes when no collaborator and no reload
\* raises: the stage blocks up to the first one that is not requested
PrefixLen(S) ==
    CHOOSE n \in 0..Len(StageOrder) :
        /\ \A i \in 1..n : StageOrder[i] \in S
        /\ (n = Len(StageOrder) \/ StageOrder[n + 1] \notin S)

RunFromNew(S) == SubSeq(StageOrder, 1, PrefixLen(S))

\* C27: the collaborators are invoked in the order download, extract,
\* summarize, audio, each at most once, whatever the order and the
\* repetitions in the list given; a run from new in which nothing raised
\* has executed the stages that the set of the list's elements determines
C27_SetNotOrder ==
    op = "process" =>
        /\ \A i, j \in 1..Len(invoked) :
               i < j => StageIndex(invoked[i]) < StageIndex(invoked[j])
        /\ (Returned /\ entry = "new" /\ ~StageRaised) =>
               /\ invoked = RunFromNew(stages)
               /\ stages = DefaultStages(AsSet(arg))

\* A list naming the four stages in reverse order has run all four
C27_Witness ==
    /\ Returned
    /\ op = "process"
    /\ arg = <<"audio", "summarize", "extract", "download">>
    /\ entry = "new"
    /\ invoked = StageOrder
    /\ status = "completed"

\* C28: in every reachable state, after any process, resume, state write
\* and load, the status of the record is a state name of the workflow
C28_StatusValid ==
    status \in States

\* A record loaded from a state document written by a run
C28_Witness ==
    /\ op = "load"
    /\ pc = "idle"
    /\ file.exists
    /\ status = "summarized"
    /\ disk = "summarized"

\* C29: inside a call no stage result is dropped and no artifact removed;
\* when a collaborator has raised, the returned result holds the result of
\* every stage invoked before it and their artifacts are on disk
C29_ResultsKept ==
    /\ [][(pc # "idle" /\ op' \in {"process", "resume"}) =>
              /\ art \subseteq art'
              /\ \A X \in Stages : res[X] # "none" => res'[X] = res[X]]_vars
    /\ [](  (Returned /\ exc \cap Stages # {}) =>
                \A i \in 1..Len(invoked) :
                    invoked[i] \notin exc =>
                        (res[invoked[i]] = "fresh" /\ invoked[i] \in art))

\* summarize raised after the download result was reconstructed and the
\* extraction completed in the same call
C29_Witness ==
    /\ Returned
    /\ op = "process"
    /\ entry = "downloaded"
    /\ exc = {"summarize"}
    /\ res["download"] = "loaded"
    /\ res["extract"] = "fresh"
    /\ {"download", "extract"} \subseteq art
    /\ errors = 1

-----------------------------------------------------------------------------
(* C31: reconstruction of a stage result is deterministic: with the same    *)
(* paper identity and the same files on disk it selects the same artifact   *)
(* file every time, also when several files match the stage's pattern.      *)
(* The helpers take the first entry of an unsorted glob, so with two        *)
(* matching files two reconstructions can select different files.           *)
C31_Original ==
    [][\A g \in Patterns :
          (store.pick[g] # <<>> /\ store'.pick[g] # <<>>
             /\ store'.files = store.files)
          => store'.pick[g] = store.pick[g]]_vars

\* C32: the failure path of process raises no second exception: when it
\* runs with the workflow already in a terminal state (another invocation
\* sharing the Paper marked it failed), marking failed changes nothing and
\* process returns its result.  mark_failed has no edge out of failed, so
\* the call in the except branch raises and process does not return.
C32_Original ==
    [][(pc = "except" /\ op = "process" /\ status \in FinalStates
          /\ pc' = "idle")
       => (raised' = "none" /\ status' = status)]_vars

\* C33: with the repository's own summarizer, when the extraction result is
\* available and no provider raises, the summarize stage run by process
\* takes the record from extracted to summarized and records a Summary
\* result; the record does not end failed.  _stage_summarize passes
\* output_dir, which LLMService.summarize_paper does not accept, so the call
\* raises TypeError and the record ends failed.
C33_Original ==
    (Returned /\ op = "process" /\ entry = "extracted"
       /\ "summarize" \in stages /\ res["extract"] # "none"
       /\ exc \cap (Stages \cup {"reload"}) = {})
    => (status \in {"summarized", "audio_generated", "completed"}
          /\ res["summarize"] = "fresh")

\* C34 as stated: a process call that starts from a status other than failed
\* ends in failed only if a stage collaborator raised during the call.
C34_Original ==
    (Returned /\ op = "process" /\ entry # "failed" /\ status = "failed")
    => exc \cap Stages # {}

\* C34: a process call that starts from a status other than failed ends in
\* failed only if a stage collaborator raised or reading a prerequisite's
\* artifact back raised during the call; a reconstruction that finds no
\* artifact leaves the status as it is and is not a failure.
C34_FailedOnlyIfRaised ==
    /\ []((Returned /\ op = "process" /\ entry # "failed"
            /\ status = "failed") => StageRaised)
    /\ [][(pc = "load" /\ op = "process" /\ Prereq(Cur) \notin art)
            => (status' = status /\ pc' # "except" /\ exc' = exc)]_vars

C34_Witness ==
    /\ Returned
    /\ op = "process"
    /\ entry = "extracted"
    /\ status = "failed"
    /\ exc = {"reload"}
    /\ invoked = <<>>

\* C35: for one Paper object, over any sequence of process and resume calls
\* with any stage lists (and transitions the caller makes in between), the
\* collaborator of each stage is invoked at most once.
C35_AtMostOnce ==
    [][(pc = "call" /\ invoked' # invoked) => Cur \notin ran]_vars

C35_Witness ==
    /\ Returned
    /\ ran = Stages
    /\ entry = "extracted"
    /\ invoked = <<"summarize", "audio">>
    /\ status = "completed"

\* C36: whenever process or resume returns after being called on a record
\* whose status is not an in-progress state, the status is one of new,
\* downloaded, extracted, summarized, completed, failed: no in-progress
\* state and not audio_generated.
C36_RestsOutsideProgress ==
    (Returned /\ entry \notin InProgressStates)
    => status \in {"new", "downloaded", "extracted", "summarized",
                   "completed", "failed"}

C36_Witness ==
    /\ Returned
    /\ op = "process"
    /\ req = {"audio"}
    /\ entry = "summarized"
    /\ invoked = <<"audio">>
    /\ status = "completed"

\* The persisted status is the done state of stage X or a later chain state
PersistedAtOrAfter(X) ==
    \E i \in 1..Len(Chain) : Chain[i] = disk /\ i >= Rank(DoneState(X))

InChain(s) == \E i \in 1..Len(Chain) : Chain[i] = s

\* Status s is an earlier chain state than status d
Behind(s, d) == InChain(s) /\ InChain(d) /\ Rank(s) < Rank(d)

\* C38 as stated: the status in the state document never moves backward
\* along the chain over a sequence of process and resume calls, calls on a
\* fresh Paper (status new) for a paper that has a document included.
C38_Original ==
    [][~Behind(disk', disk)]_vars

\* C38 amended: the status in the state document moves backward along the
\* chain only when a call writes the status of a record that was behind the
\* document, and a record is behind the document only when it was made
\* fresh for a paper that already has one: calls on the record that wrote
\* the document, or on a record loaded from it, never move it backward.
C38_BackwardOnlyFromFresh ==
    /\ [][Behind(disk', disk) => (Behind(status, disk) /\ disk' = status)]_vars
    /\ [][(Behind(status', disk') /\ ~Behind(status, disk))
            => op' = "fresh"]_vars

C38_Witness ==
    /\ Returned
    /\ ~direct
    /\ op = "resume"
    /\ entry = "extracted"
    /\ ran = {"summarize", "audio"}
    /\ disk = "completed"

-----------------------------------------------------------------------------
(* Repeated resume_paper calls on a record at rest                          *)

\* The stages completed by a record that rests in chain state s
CompletedAt(s) == {X \in Stages : Rank(DoneState(X)) <= Rank(s)}

\* A record as process_paper or resume_paper leaves it at rest: its status
\* written to the state document, the artifacts of its completed stages on
\* disk (after a failure, any artifacts)
InitResume ==
    /\ status \in {"new", "downloaded", "extracted", "summarized",
                    "completed", "failed"}
    /\ art \in {A \in SUBSET Stages :
                   status # "failed" => CompletedAt(status) \subseteq A}
    /\ disk = IF status = "new" THEN "none" ELSE status
    /\ file = IF status = "new" THEN NoFile ELSE StateFile(ThePaper, status)
    /\ entry = status
    /\ pc = "idle"
    /\ stg = 0
    /\ stages = {}
    /\ req = {}
    /\ res = NoResults
    /\ errors = 0
    /\ raised = "none"
    /\ op = "none"
    /\ ev = "none"
    /\ invoked = <<>>
    /\ exc = {}
    /\ dirty = FALSE
    /\ arg = <<>>
    /\ ran = {}
    /\ direct = FALSE
    /\ store = NoStore
    /\ paper = ThePaper
    /\ two = NoRuns

\* The caller calls resume_paper again and again; every collaborator call
\* returns or raises, an artifact on disk is read back, and the state
\* document is written
NextResume ==
    \/ resume_paper
    \/ CheckStage
    \/ LoadPrereq /\ "reload" \notin exc'
    \/ StartStage
    \/ CallCollaborator
    \/ CompleteStage
    \/ save_paper_state /\ "write" \notin exc'
    \/ Finalize
    \/ HandleException

\* A call that was entered runs to its return, and the caller keeps calling
SpecResume == InitResume /\ [][NextResume]_vars /\ WF_vars(NextResume)

\* C39: when every collaborator call returns or raises, state writes succeed
\* and the artifacts of completed stages stay on disk, repeated resume calls
\* from any status a call leaves at rest reach completed or failed after
\* finitely many calls and stay there, and they reach completed unless a
\* collaborator raised (or the record was failed to begin with).
C39_ResumeTerminates ==
    /\ <>[](status \in FinalStates)
    /\ [](status = "failed" => (exc \cap Stages # {} \/ entry = "failed"))

C39_Witness ==
    /\ Returned
    /\ op = "resume"
    /\ entry = "summarized"
    /\ res["summarize"] = "loaded"
    /\ invoked = <<"audio">>
    /\ status = "completed"
    /\ disk = "completed"

\* C40: process and resume change no field of the Paper object other than
\* status: save_dir, pdf_filename, downloaded_at and the descriptive fields
\* are after each step of a call what they were before it, also when the
\* download succeeded.
C40_PaperFieldsKept ==
    [][op' \in {"process", "resume"} => paper' = paper]_vars

C40_Witness ==
    /\ Returned
    /\ op = "process"
    /\ entry = "new"
    /\ res["download"] = "fresh"
    /\ status = "downloaded"
    /\ "download" \in art
    /\ paper.downloaded_at = <<>>
    /\ paper.save_dir = <<>>

====
